---- MODULE Spec2Model ----
(***************************************************************************)
(* Model of the main-process run orchestration of coinstac-ui              *)
(* (src/unnamed/part_000): the 'start-pipeline' IPC listener and the       *)
(* promise chain it builds.  One lifecycle is one invocation of the        *)
(* listener; every action is one callback of that chain, run to the point  *)
(* where it next waits on a collaborator (image service, file service,     *)
(* pipeline engine).  Collaborator outcomes are inputs of the actions.     *)
(* The 'login-init', 'logout', 'stop-pipeline' and 'clean-remote-pipeline'  *)
(* listeners act on the session core the chains share.                     *)
(***************************************************************************)
EXTENDS Integers, Sequences, FiniteSets, TLC

\* ---------------------------------------------------------------- bounds
MaxSteps == 2       \* steps of a pipeline snapshot
MaxChunks == 1      \* data chunks one pull stream emits
MaxUpdates == 1     \* 'update' events the engine emits for one run
MaxLogins == 2      \* 'login-init' requests the renderer sends
MaxStops == 1       \* 'stop-pipeline' requests the renderer sends
SessionSteps == 1   \* steps of a pipeline in the session specification
MaxEvents == 2      \* data chunks, engine updates and stop requests of one behaviour
MaxLogouts == 1     \* 'logout' requests the renderer sends
MaxCleans == 1      \* 'clean-remote-pipeline' requests the renderer sends
MaxFailures == 8    \* collaborator failures of one behaviour
TwoRunEvents == 1   \* the same as MaxEvents, in the specification of two runs
TwoRunFailures == 2 \* the same as MaxFailures, in the specification of two runs
MaxDownloads == 1   \* 'download-comps' requests the renderer sends
MaxComps == 2       \* computations one 'download-comps' request names
MaxRegistrations == 2 \* computations the renderer starts or joins

\* ------------------------------------------------------------ input sets
StartIds == {1, 2}                 \* invocations of the listener
RunIds == {"run1", "run2"}
\* Run ids are opaque to the main process: the k-th start request names one
\* of the first k ids, which loses no behaviour up to renaming.
RunIdOrder == <<"run1", "run2">>
RunTypes == {"local", "decentralized"}
Images == {"imgA", "imgB"}
\* the dockerImage of a computation; undefined when the step names none
StepImages == Images \cup {"undefined"}

Undefined == "undefined"
None == <<>>
Some(x) == <<x>>

\* A JavaScript value that is thrown or used as a rejection reason.  A
\* string has none of the properties message/stack/error/input: reading
\* them gives undefined.
ErrorValue(m, s, e, i) ==
    [kind |-> "object", value |-> Undefined,
     message |-> m, stack |-> s, error |-> e, input |-> i]
StringValue(s) ==
    [kind |-> "string", value |-> s,
     message |-> Undefined, stack |-> Undefined,
     error |-> Undefined, input |-> Undefined]

StreamErrors == {ErrorValue("pull failed", "pull@docker", Undefined, Undefined)}
PullErrors == {ErrorValue("list failed", "list@docker", Undefined, Undefined)}
CleanupErrors == {ErrorValue("unlink failed", "unlink@files", Undefined, Undefined)}
StartErrors == {ErrorValue("start failed", "start@engine", "cause", Undefined)}
NotifyErrors == {ErrorValue("notify failed", "notify@sink", Undefined, Undefined)}
EngineErrors == {ErrorValue("boom", "boom@engine", "cause", "x1"),
                 ErrorValue("halt", "halt@engine", "cause", Undefined)}
Results == {"results"}
ConsortiumIds == {"tium1", "tium2"}
\* params.computations of a 'download-comps' request
CompSeqs == UNION {[1..n -> Images] : n \in 0..MaxComps}
NotStartedMessage == "daemon unreachable"
\* what a property access on the undefined initializedCore throws
TypeError == ErrorValue("Cannot read property of undefined", "TypeError@main",
                        Undefined, Undefined)
\* what the engine's stop operation fails with for a run it does not know
NotFoundError == ErrorValue("NotFound", "NotFound@engine", Undefined, Undefined)
NoValue == [kind |-> "none", value |-> Undefined,
            message |-> Undefined, stack |-> Undefined,
            error |-> Undefined, input |-> Undefined]
ResultsValue(r) == [kind |-> "results", value |-> r,
                    message |-> Undefined, stack |-> Undefined,
                    error |-> Undefined, input |-> Undefined]

VARIABLES
    pc,          \* per lifecycle: the collaborator promise the chain waits on
    run,         \* per lifecycle: the run object closed over by the callbacks
    imageList,   \* per lifecycle: computationImageList
    pulls,       \* per lifecycle: one entry per compStream
    captured,    \* per lifecycle: err / results / error closed over by a handler
    subscribed,  \* per lifecycle: the stateEmitter 'update' listener is attached
    emitted,     \* per lifecycle: number of updates the engine has emitted
    log,         \* per lifecycle: history of its sends, collaborator calls, outcomes
    startsLeft,  \* start requests the renderer may still send
    initializedCore, \* 0: undefined, n > 0: the n-th core instance created
    configuring,     \* configureCore calls whose promise is still pending
    coresCreated,    \* core instances configureCore has resolved with
    configureCalls,  \* invocations of configureCore
    loginsLeft,      \* 'login-init' requests the renderer may still send
    stopsLeft,       \* 'stop-pipeline' requests the renderer may still send
    stops,           \* history of the 'stop-pipeline' requests handled
    stepLimit,       \* longest pipeline the renderer submits
    eventsLeft,      \* data chunks, engine updates and stop requests still to come
    logoutsLeft,     \* 'logout' requests the renderer may still send
    ending,          \* mqtCon.end calls whose callback has not run yet
    ended,           \* the core instances mqtCon.end was called on
    lastSession,     \* the last session request: a login received, a logout completed
    sessionCores,    \* core instances created since the last logout completed
    logouts,         \* history of the 'logout' requests settled
    cleansLeft,      \* 'clean-remote-pipeline' requests the renderer may still send
    cleaning,        \* per run id: unlinkFiles promises of clean requests still pending
    cleans,          \* history of the 'clean-remote-pipeline' requests handled
    failLimit,       \* collaborator failures one behaviour may hold
    downloadsLeft,   \* 'download-comps' requests the renderer may still send
    download,        \* the 'download-comps' request: params, compStreams, streamsComplete
    dlog,            \* history of the sends of the 'download-comps' handlers
    registrationsLeft, \* computations the renderer may still start or join
    registrations,   \* the listeners runComputation / joinSlaveComputation registered
    computations,    \* per consortium: its computation is idle, running or complete
    notices          \* history of the computation notifications

downloadVars == <<downloadsLeft, download, dlog>>
poolVars == <<registrationsLeft, registrations, computations, notices>>
stopVars == <<stopsLeft, stops, stepLimit, cleansLeft, cleaning, cleans, failLimit,
              downloadVars, poolVars>>
session == <<initializedCore, configuring, coresCreated, configureCalls, loginsLeft,
             logoutsLeft, ending, ended, lastSession, sessionCores, logouts>>
vars == <<pc, run, imageList, pulls, captured, subscribed, emitted, log, startsLeft,
          initializedCore, configuring, coresCreated, configureCalls, loginsLeft,
          stopsLeft, stops, stepLimit, eventsLeft,
          logoutsLeft, ending, ended, lastSession, sessionCores, logouts,
          cleansLeft, cleaning, cleans, failLimit,
          downloadsLeft, download, dlog,
          registrationsLeft, registrations, computations, notices>>

NoRun == [id |-> Undefined, type |-> Undefined, steps |-> <<>>,
          error |-> None, results |-> None, endDate |-> FALSE]

\* ------------------------------------------------------------ log records
\* mainWindow.webContents.send(channel, payload)
Send(c, channel, payload) ==
    [kind |-> "send", name |-> channel, lc |-> c, payload |-> payload]
\* an invocation of a collaborator (image service, file service, engine, sink)
Call(c, fn, arg) ==
    [kind |-> "call", name |-> fn, lc |-> c, payload |-> arg]
\* the way a collaborator's promise settled, or what a collaborator threw
Outcome(c, what, v) ==
    [kind |-> "outcome", name |-> what, lc |-> c, payload |-> v]

\* ------------------------------------------------------ pure helpers
RECURSIVE Flatten(_)
Flatten(ss) == IF ss = <<>> THEN <<>> ELSE Head(ss) \o Flatten(Tail(ss))

\* pipeline.steps.map(step => step.computations.map(dockerImage)).reduce(concat, [])
ComputationImageList(steps) == Flatten(steps)

\* for each compStream, whether its stream is subscribable (the pull started)
StartableSeqs == UNION {[1..n -> BOOLEAN] : n \in 0..MaxSteps}
StepSeqs == UNION {[1..n -> {<<i>> : i \in StepImages}] : n \in 0..MaxSteps}

\* error: { message, stack, error } -- a property that is not set reads undefined
ErrorRecord3(e) ==
    [message |-> e.message, stack |-> e.stack, error |-> e.error, input |-> Undefined]
\* error: { message, stack, error, input }
ErrorRecord4(e) ==
    [message |-> e.message, stack |-> e.stack, error |-> e.error, input |-> e.input]

DownloadingUpdate(text) ==
    [controllerState |-> "Downloading required docker images", text |-> text]

\* ------------------------------------------------ continuations of the chain
\* What one callback leaves behind for lifecycle c: the records it appended,
\* the promise the chain now waits on, the value its closure holds, the run.
K(lg, p, cap, r) == [log |-> lg, pc |-> p, captured |-> cap, run |-> r]

Apply(c, k) ==
    /\ log' = [log EXCEPT ![c] = k.log]
    /\ pc' = [pc EXCEPT ![c] = k.pc]
    /\ captured' = [captured EXCEPT ![c] = k.captured]
    /\ run' = [run EXCEPT ![c] = k.run]

\* a callback of the chain reads a property of initializedCore after a
\* logout has set it to undefined
CoreUndefined(c) == Outcome(c, "core-undefined-threw", TypeError)

\* .catch((err) => initializedCore.unlinkFiles(run.id) ...
AcquisitionCatch(c, lg, e) ==
    IF initializedCore = 0
    THEN \* the catch callback throws: both following .then are skipped
         K(Append(lg, CoreUndefined(c)), "rejected", NoValue, run[c])
    ELSE K(Append(lg, Call(c, "unlinkFiles", run[c].id)), "acqCatch", e, run[c])

\* .then(() => initializedCore.dockerManager.pruneImages())
PruneThen(c, lg, r) ==
    IF initializedCore = 0
    THEN K(Append(lg, CoreUndefined(c)), "rejected", NoValue, r)
    ELSE K(Append(lg, Call(c, "pruneImages", Undefined)), "pruning", NoValue, r)

\* the .catch attached to startPipeline(...).then(...)
OuterCatch(c, lg, e, r) ==
    LET r2 == [r EXCEPT !.error = Some(ErrorRecord3(e)), !.endDate = TRUE]
    IN K(Append(lg, Send(c, "local-run-error", [run |-> r2])), "done", NoValue, r2)

\* the .catch attached to result.then(...); ok: sendNotification returned
ResultCatch(c, lg, e, ok, ne) ==
    LET lg2 == Append(lg, Call(c, "sendNotification", "Pipeline stopped"))
    IN IF ok
       THEN IF initializedCore = 0
            THEN OuterCatch(c, Append(lg2, CoreUndefined(c)), TypeError, run[c])
            ELSE K(Append(lg2, Call(c, "unlinkFiles", run[c].id)), "errCleanup", e, run[c])
       ELSE OuterCatch(c, Append(lg2, Outcome(c, "sendNotification-threw", ne)), ne, run[c])

\* ------------------------------------------------------------------ Init
\* What the renderer and the collaborators may still do in one behaviour:
\* start requests with stream and engine events and stop requests, or with
\* logout requests, or with clean requests; or 'download-comps' requests; or
\* computations started through the background services.
Quota(st, ev, sp, lo, cl, fa, dl, rg) ==
    [starts |-> st, events |-> ev, stops |-> sp, logouts |-> lo,
     cleans |-> cl, failures |-> fa, downloads |-> dl, registrations |-> rg]
Quotas ==
    {Quota(1, MaxEvents, MaxStops, 0, 0, MaxFailures, 0, 0),
     Quota(1, 0, 0, MaxLogouts, 0, MaxFailures, 0, 0),
     Quota(1, 0, 0, 0, MaxCleans, MaxFailures, 0, 0),
     Quota(0, 0, 0, 0, 0, 0, MaxDownloads, 0),
     Quota(0, 0, 0, 0, 0, 0, 0, MaxRegistrations)}
\* the same for two runs: few events and no failure, or failures and no event;
\* clean requests come with one run
QuotasTwoRuns ==
    {Quota(2, TwoRunEvents, MaxStops, 0, 0, 0, 0, 0),
     Quota(2, 0, 0, 0, 0, TwoRunFailures, 0, 0),
     Quota(2, 0, 0, MaxLogouts, 0, 0, 0, 0),
     Quota(1, 0, 0, 0, MaxCleans, 0, 0, 0),
     Quota(0, 0, 0, 0, 0, 0, MaxDownloads, 0),
     Quota(0, 0, 0, 0, 0, 0, 0, MaxRegistrations)}

\* no 'download-comps' request handled yet
NoDownload == [state |-> "none", computations |-> <<>>, consortiumId |-> Undefined,
               compStreams |-> <<>>, streamsComplete |-> 0]

\* The main process after boot: no core, no listener invoked yet.
InitWith(starts, logins, steps, quotas) ==
    /\ pc = [c \in StartIds |-> "idle"]
    /\ run = [c \in StartIds |-> NoRun]
    /\ imageList = [c \in StartIds |-> <<>>]
    /\ pulls = [c \in StartIds |-> <<>>]
    /\ captured = [c \in StartIds |-> NoValue]
    /\ subscribed = [c \in StartIds |-> FALSE]
    /\ emitted = [c \in StartIds |-> 0]
    /\ log = [c \in StartIds |-> <<>>]
    /\ initializedCore = 0
    /\ configuring = 0
    /\ coresCreated = 0
    /\ configureCalls = 0
    /\ loginsLeft = logins
    /\ stops = <<>>
    /\ stepLimit = steps
    /\ ending = 0
    /\ ended = {}
    /\ lastSession = "none"
    /\ sessionCores = 0
    /\ logouts = <<>>
    /\ cleaning = [rid \in RunIds |-> 0]
    /\ cleans = <<>>
    /\ download = NoDownload
    /\ dlog = <<>>
    /\ registrations = <<>>
    /\ computations = [k \in ConsortiumIds |-> "idle"]
    /\ notices = <<>>
    /\ \E q \in quotas :
           /\ startsLeft = IF q.starts < starts THEN q.starts ELSE starts
           /\ downloadsLeft = q.downloads
           /\ registrationsLeft = q.registrations
           /\ failLimit = q.failures
           /\ eventsLeft = q.events
           /\ stopsLeft = q.stops
           /\ logoutsLeft = q.logouts
           /\ cleansLeft = q.cleans

Init == InitWith(1, 1, MaxSteps, Quotas)

\* --------------------------------------------------------------- actions
\* The collaborator failures a behaviour holds so far: pulls that did not
\* start or whose stream emitted 'error', rejected promises, thrown errors.
FailureNames == {"pullImagesFromList-rejected", "unlinkFiles-rejected",
                 "sendNotification-threw", "pruneImages-rejected",
                 "startPipeline-rejected", "result-rejected"}
FailuresOf(c) ==
    Cardinality({i \in DOMAIN pulls[c] : pulls[c][i].state \in {"errored", "notStarted"}})
    + Cardinality({i \in DOMAIN log[c] : /\ log[c][i].kind = "outcome"
                                         /\ log[c][i].name \in FailureNames})
RECURSIVE SumOver(_, _)
SumOver(f, S) ==
    IF S = {} THEN 0
    ELSE LET x == CHOOSE y \in S : TRUE IN f[x] + SumOver(f, S \ {x})
Failures == SumOver([c \in StartIds |-> FailuresOf(c)], StartIds)
\* n more collaborator failures fit in the behaviour
CanFail(n) == Failures + n <= failLimit
Bit(b) == IF b THEN 1 ELSE 0

\* StartPipeline with 'save-local-run' sent after the pull was issued
StartPipelineSaveLate(c, rid, ty, steps) ==
    /\ startsLeft > 0
    /\ pc[c] = "idle"
    /\ \A d \in StartIds : d < c => pc[d] # "idle"
    /\ \E k \in 1..c : rid = RunIdOrder[k]
    /\ Len(steps) <= stepLimit
    /\ LET r == [id |-> rid, type |-> ty, steps |-> steps, error |-> None,
                 results |-> None, endDate |-> FALSE]
           list == ComputationImageList(steps)
       IN /\ imageList' = [imageList EXCEPT ![c] = list]
          /\ IF initializedCore = 0
             THEN Apply(c, K(log[c] \o <<Send(c, "save-local-run", [run |-> r]),
                                     Outcome(c, "listener-threw", TypeError)>>,
                             "threw", NoValue, r))
             ELSE Apply(c, K(log[c] \o <<Call(c, "pullImagesFromList", list),
                                     Send(c, "save-local-run", [run |-> r])>>,
                             "pulling", NoValue, r))
    /\ startsLeft' = startsLeft - 1
    /\ UNCHANGED <<pulls, subscribed, emitted, session, stopVars, eventsLeft>>

\* ipcMain.on('start-pipeline'): the synchronous part of the listener
StartPipeline(c, rid, ty, steps) ==
    /\ startsLeft > 0
    /\ pc[c] = "idle"
    /\ \A d \in StartIds : d < c => pc[d] # "idle"
    /\ \E k \in 1..c : rid = RunIdOrder[k]
    /\ Len(steps) <= stepLimit
    /\ LET r == [id |-> rid, type |-> ty, steps |-> steps, error |-> None,
                 results |-> None, endDate |-> FALSE]
           list == ComputationImageList(steps)
           lg == Append(log[c], Send(c, "save-local-run", [run |-> r]))
       IN /\ imageList' = [imageList EXCEPT ![c] = list]
          /\ IF initializedCore = 0
             THEN \* initializedCore.dockerManager throws out of the listener
                  Apply(c, K(Append(lg, Outcome(c, "listener-threw", TypeError)),
                             "threw", NoValue, r))
             ELSE Apply(c, K(Append(lg, Call(c, "pullImagesFromList", list)),
                             "pulling", NoValue, r))
    /\ startsLeft' = startsLeft - 1
    /\ UNCHANGED <<pulls, subscribed, emitted, session, stopVars, eventsLeft>>

\* AttachUpdates without the test of typeof stream.on
RECURSIVE AttachUpdatesAll(_, _, _)
AttachUpdatesAll(c, startable, i) ==
    IF i > Len(startable) THEN <<>>
    ELSE <<Send(c, "local-pipeline-state-update",
                [run |-> run[c].id, data |-> DownloadingUpdate(None)])>>
         \o AttachUpdatesAll(c, startable, i + 1)

\* the 'Downloading required docker images' updates of compStreams.forEach
RECURSIVE AttachUpdates(_, _, _)
AttachUpdates(c, startable, i) ==
    IF i > Len(startable) THEN <<>>
    ELSE (IF startable[i]
          THEN <<Send(c, "local-pipeline-state-update",
                      [run |-> run[c].id, data |-> DownloadingUpdate(None)])>>
          ELSE <<>>) \o AttachUpdates(c, startable, i + 1)

\* PullsIssued waiting for a stream to end even when there is none
PullsIssuedWaits(c, startable) ==
    /\ pc[c] = "pulling"
    /\ CanFail(Cardinality({i \in DOMAIN startable : ~startable[i]}))
    /\ Len(startable) = Len(imageList[c])
    /\ pulls' = [pulls EXCEPT ![c] =
            [i \in 1..Len(startable) |->
                [state |-> IF startable[i] THEN "streaming" ELSE "notStarted",
                 chunks |-> 0]]]
    /\ LET lg == log[c] \o AttachUpdates(c, startable, 1)
       IN IF \E i \in 1..Len(startable) : ~startable[i]
          THEN Apply(c, AcquisitionCatch(c, lg, StringValue(NotStartedMessage)))
          ELSE Apply(c, K(lg, "acquiring", NoValue, run[c]))
    /\ UNCHANGED <<imageList, subscribed, emitted, startsLeft, session, stopVars, eventsLeft>>

\* .then((compStreams) => { ... return Promise.all(streamProms) })
PullsIssued(c, startable) ==
    /\ pc[c] = "pulling"
    /\ CanFail(Cardinality({i \in DOMAIN startable : ~startable[i]}))
    /\ Len(startable) = Len(imageList[c])
    /\ pulls' = [pulls EXCEPT ![c] =
            [i \in 1..Len(startable) |->
                [state |-> IF startable[i] THEN "streaming" ELSE "notStarted",
                 chunks |-> 0]]]
    /\ LET lg == log[c] \o AttachUpdates(c, startable, 1)
       IN IF \E i \in 1..Len(startable) : ~startable[i]
          THEN Apply(c, AcquisitionCatch(c, lg, StringValue(NotStartedMessage)))
          ELSE IF Len(startable) = 0
               THEN Apply(c, PruneThen(c, lg, run[c]))
               ELSE Apply(c, K(lg, "acquiring", NoValue, run[c]))
    /\ UNCHANGED <<imageList, subscribed, emitted, startsLeft, session, stopVars, eventsLeft>>

\* pullImagesFromList itself rejects
PullsRejected(c, e) ==
    /\ pc[c] = "pulling"
    /\ CanFail(1)
    /\ Apply(c, AcquisitionCatch(c,
           Append(log[c], Outcome(c, "pullImagesFromList-rejected", e)), e))
    /\ UNCHANGED <<imageList, pulls, subscribed, emitted, startsLeft, session, stopVars, eventsLeft>>

\* StreamData with `run` a variable shared by the invocations of the listener
StreamDataSharedRun(c, i) ==
    /\ i \in DOMAIN pulls[c]
    /\ pulls[c][i].state = "streaming"
    /\ pulls[c][i].chunks < MaxChunks
    /\ eventsLeft > 0
    /\ eventsLeft' = eventsLeft - 1
    /\ pulls' = [pulls EXCEPT ![c][i].chunks = @ + 1]
    /\ LET last == CHOOSE d \in StartIds :
                       pc[d] # "idle" /\ \A x \in StartIds : pc[x] # "idle" => x <= d
       IN log' = [log EXCEPT ![c] = Append(@, Send(c, "local-pipeline-state-update",
                 [run |-> run[last].id,
                  data |-> DownloadingUpdate(Some(<<i, pulls[c][i].chunks + 1>>))]))]
    /\ UNCHANGED <<pc, run, imageList, captured, subscribed, emitted, startsLeft,
                   session, stopVars>>

\* stream.on('data', ...)
StreamData(c, i) ==
    /\ i \in DOMAIN pulls[c]
    /\ pulls[c][i].state = "streaming"
    /\ pulls[c][i].chunks < MaxChunks
    /\ eventsLeft > 0
    /\ eventsLeft' = eventsLeft - 1
    /\ pulls' = [pulls EXCEPT ![c][i].chunks = @ + 1]
    /\ log' = [log EXCEPT ![c] = Append(@, Send(c, "local-pipeline-state-update",
                 [run |-> run[c].id,
                  data |-> DownloadingUpdate(Some(<<i, pulls[c][i].chunks + 1>>))]))]
    /\ UNCHANGED <<pc, run, imageList, captured, subscribed, emitted, startsLeft,
                   session, stopVars>>

\* stream.on('end', () => proxRes()); Promise.all resolves with the last one
StreamEnd(c, i) ==
    /\ i \in DOMAIN pulls[c]
    /\ pulls[c][i].state = "streaming"
    /\ pulls' = [pulls EXCEPT ![c][i].state = "ended"]
    /\ IF pc[c] = "acquiring"
          /\ \A j \in DOMAIN pulls[c] : j # i => pulls[c][j].state = "ended"
       THEN Apply(c, PruneThen(c, log[c], run[c]))
       ELSE UNCHANGED <<log, pc, captured, run>>
    /\ UNCHANGED <<imageList, subscribed, emitted, startsLeft, session, stopVars, eventsLeft>>

\* stream.on('error', (err) => proxRej(err)); Promise.all rejects with the first
StreamError(c, i, e) ==
    /\ i \in DOMAIN pulls[c]
    /\ pulls[c][i].state = "streaming"
    /\ CanFail(1)
    /\ pulls' = [pulls EXCEPT ![c][i].state = "errored"]
    /\ IF pc[c] = "acquiring"
       THEN Apply(c, AcquisitionCatch(c, log[c], e))
       ELSE UNCHANGED <<log, pc, captured, run>>
    /\ UNCHANGED <<imageList, subscribed, emitted, startsLeft, session, stopVars, eventsLeft>>

\* unlinkFiles(run.id).then(() => send('local-run-error')) of the first catch
AcqCleanupResolved(c) ==
    /\ pc[c] = "acqCatch"
    /\ LET r2 == [run[c] EXCEPT !.error = Some(ErrorRecord3(captured[c])),
                                !.endDate = TRUE]
       IN Apply(c, PruneThen(c,
              log[c] \o <<Outcome(c, "unlinkFiles-resolved", run[c].id),
                       Send(c, "local-run-error", [run |-> r2])>>, r2))
    /\ UNCHANGED <<imageList, pulls, subscribed, emitted, startsLeft, session, stopVars, eventsLeft>>

\* unlinkFiles rejects inside the first catch: nothing handles it
AcqCleanupRejected(c, e) ==
    /\ pc[c] = "acqCatch"
    /\ CanFail(1)
    /\ Apply(c, K(Append(log[c], Outcome(c, "unlinkFiles-rejected", e)),
                  "rejected", NoValue, run[c]))
    /\ UNCHANGED <<imageList, pulls, subscribed, emitted, startsLeft, session, stopVars, eventsLeft>>

\* .then(() => { sendNotification('Pipeline started'); return startPipeline(...) })
PruneResolved(c, ok, ne) ==
    /\ pc[c] = "pruning"
    /\ CanFail(Bit(~ok))
    /\ LET lg == Append(log[c], Call(c, "sendNotification", "Pipeline started"))
       IN IF ok
          THEN IF initializedCore = 0
               THEN \* initializedCore.startPipeline throws inside the callback
                    Apply(c, K(Append(lg, CoreUndefined(c)),
                               "rejected", NoValue, run[c]))
               ELSE Apply(c, K(Append(lg, Call(c, "startPipeline", run[c].id)),
                               "starting", NoValue, run[c]))
          ELSE Apply(c, K(Append(lg, Outcome(c, "sendNotification-threw", ne)),
                          "rejected", NoValue, run[c]))
    /\ UNCHANGED <<imageList, pulls, subscribed, emitted, startsLeft, session, stopVars, eventsLeft>>

\* pruneImages rejects: the following .then is skipped, nothing handles it
PruneRejected(c) ==
    /\ pc[c] = "pruning"
    /\ CanFail(1)
    /\ Apply(c, K(Append(log[c], Outcome(c, "pruneImages-rejected", Undefined)),
                  "rejected", NoValue, run[c]))
    /\ UNCHANGED <<imageList, pulls, subscribed, emitted, startsLeft, session, stopVars, eventsLeft>>

\* .then(({ pipeline, result }) => { pipeline.stateEmitter.on('update', ...)
StartResolved(c) ==
    /\ pc[c] = "starting"
    /\ subscribed' = [subscribed EXCEPT ![c] = TRUE]
    /\ pc' = [pc EXCEPT ![c] = "executing"]
    /\ log' = [log EXCEPT ![c] = Append(@, Outcome(c, "startPipeline-resolved", Undefined))]
    /\ UNCHANGED <<run, imageList, pulls, captured, emitted, startsLeft, session, stopVars, eventsLeft>>

\* startPipeline rejects
StartRejected(c, e) ==
    /\ pc[c] = "starting"
    /\ CanFail(1)
    /\ Apply(c, OuterCatch(c, Append(log[c], Outcome(c, "startPipeline-rejected", e)),
                           e, run[c]))
    /\ UNCHANGED <<imageList, pulls, subscribed, emitted, startsLeft, session, stopVars, eventsLeft>>

\* the engine, once startPipeline was invoked, emits 'update'; the listener,
\* once attached (it is never removed), forwards it
EngineUpdate(c) ==
    /\ pc[c] \in {"starting", "executing", "finCleanup", "errCleanup", "done"}
    /\ emitted[c] < MaxUpdates
    /\ eventsLeft > 0
    /\ eventsLeft' = eventsLeft - 1
    /\ emitted' = [emitted EXCEPT ![c] = @ + 1]
    /\ LET lg == Append(log[c], Outcome(c, "update-emitted", emitted[c] + 1))
       IN IF subscribed[c]
          THEN log' = [log EXCEPT ![c] = Append(lg, Send(c, "local-pipeline-state-update",
                           [run |-> run[c].id, data |-> [update |-> emitted[c] + 1]]))]
          ELSE log' = [log EXCEPT ![c] = lg]
    /\ UNCHANGED <<pc, run, imageList, pulls, captured, subscribed, startsLeft,
                   session, stopVars>>

\* result.then((results) => { sendNotification('Pipeline finished'); unlinkFiles })
ResultResolved(c, res, ok, ok2, ne) ==
    /\ pc[c] = "executing"
    /\ CanFail(Bit(~ok) + Bit(~ok /\ ~ok2))
    /\ LET lg == log[c] \o <<Outcome(c, "result-fulfilled", ResultsValue(res)),
                          Call(c, "sendNotification", "Pipeline finished")>>
       IN IF ok
          THEN IF initializedCore = 0
               THEN \* initializedCore.unlinkFiles throws: the result catch takes it
                    Apply(c, ResultCatch(c, Append(lg, CoreUndefined(c)),
                                         TypeError, ok2, ne))
               ELSE Apply(c, K(Append(lg, Call(c, "unlinkFiles", run[c].id)),
                               "finCleanup", ResultsValue(res), run[c]))
          ELSE Apply(c, ResultCatch(c,
                   Append(lg, Outcome(c, "sendNotification-threw", ne)), ne, ok2, ne))
    /\ UNCHANGED <<imageList, pulls, subscribed, emitted, startsLeft, session, stopVars, eventsLeft>>

\* result rejects: .catch((error) => { sendNotification('Pipeline stopped'); ... })
ResultRejected(c, e, ok, ne) ==
    /\ pc[c] = "executing"
    /\ CanFail(1 + Bit(~ok))
    /\ Apply(c, ResultCatch(c, Append(log[c], Outcome(c, "result-rejected", e)),
                            e, ok, ne))
    /\ UNCHANGED <<imageList, pulls, subscribed, emitted, startsLeft, session, stopVars, eventsLeft>>

\* unlinkFiles(run.id).then(() => { if (run.type === 'local') send('local-run-complete') })
FinCleanupResolved(c) ==
    /\ pc[c] = "finCleanup"
    /\ LET lg == Append(log[c], Outcome(c, "unlinkFiles-resolved", run[c].id))
       IN IF run[c].type = "local"
          THEN LET r2 == [run[c] EXCEPT !.results = Some(captured[c].value),
                                        !.endDate = TRUE]
               IN Apply(c, K(Append(lg, Send(c, "local-run-complete", [run |-> r2])),
                             "done", NoValue, r2))
          ELSE Apply(c, K(lg, "done", NoValue, run[c]))
    /\ UNCHANGED <<imageList, pulls, subscribed, emitted, startsLeft, session, stopVars, eventsLeft>>

\* unlinkFiles rejects after the result resolved: the result catch takes it
FinCleanupRejected(c, e, ok, ne) ==
    /\ pc[c] = "finCleanup"
    /\ CanFail(1 + Bit(~ok))
    /\ Apply(c, ResultCatch(c, Append(log[c], Outcome(c, "unlinkFiles-rejected", e)),
                            e, ok, ne))
    /\ UNCHANGED <<imageList, pulls, subscribed, emitted, startsLeft, session, stopVars, eventsLeft>>

\* unlinkFiles(run.id).then(() => send('local-run-error')) of the result catch
ErrCleanupResolved(c) ==
    /\ pc[c] = "errCleanup"
    /\ LET r2 == [run[c] EXCEPT !.error = Some(ErrorRecord4(captured[c])),
                                !.endDate = TRUE]
       IN Apply(c, K(log[c] \o <<Outcome(c, "unlinkFiles-resolved", run[c].id),
                              Send(c, "local-run-error", [run |-> r2])>>,
                     "done", NoValue, r2))
    /\ UNCHANGED <<imageList, pulls, subscribed, emitted, startsLeft, session, stopVars, eventsLeft>>

\* unlinkFiles rejects inside the result catch: the outer catch takes it
ErrCleanupRejected(c, e) ==
    /\ pc[c] = "errCleanup"
    /\ CanFail(1)
    /\ Apply(c, OuterCatch(c, Append(log[c], Outcome(c, "unlinkFiles-rejected", e)),
                           e, run[c]))
    /\ UNCHANGED <<imageList, pulls, subscribed, emitted, startsLeft, session, stopVars, eventsLeft>>

\* ---------------------------------------------------------------- session
runVars == <<pc, run, imageList, pulls, captured, subscribed, emitted, startsLeft>>

\* LoginInit without the test of initializedCore
LoginInitAlwaysConfigures ==
    /\ loginsLeft > 0
    /\ loginsLeft' = loginsLeft - 1
    /\ configuring' = configuring + 1
    /\ configureCalls' = configureCalls + 1
    /\ lastSession' = "login"
    /\ UNCHANGED <<initializedCore, coresCreated, logoutsLeft, ending, ended,
                   sessionCores, logouts, runVars, log, stopVars, eventsLeft>>

\* ipcPromise.on('login-init'): initializedCore ? Promise.resolve() : configureCore(...)
LoginInit ==
    /\ loginsLeft > 0
    /\ loginsLeft' = loginsLeft - 1
    /\ IF initializedCore # 0
       THEN UNCHANGED <<configuring, configureCalls>>
       ELSE /\ configuring' = configuring + 1
            /\ configureCalls' = configureCalls + 1
    /\ lastSession' = "login"
    /\ UNCHANGED <<initializedCore, coresCreated, logoutsLeft, ending, ended,
                   sessionCores, logouts, runVars, log, stopVars, eventsLeft>>

\* configureCore(...).then((c) => { initializedCore = c; ... })
ConfigureResolved ==
    /\ configuring > 0
    /\ configuring' = configuring - 1
    /\ coresCreated' = coresCreated + 1
    /\ initializedCore' = coresCreated + 1
    /\ sessionCores' = sessionCores + 1
    /\ UNCHANGED <<configureCalls, loginsLeft, logoutsLeft, ending, ended, lastSession,
                   logouts, runVars, log, stopVars, eventsLeft>>

\* configureCore rejects: the rejection goes back to the renderer
ConfigureRejected ==
    /\ configuring > 0
    /\ configuring' = configuring - 1
    /\ UNCHANGED <<initializedCore, coresCreated, configureCalls, loginsLeft,
                   logoutsLeft, ending, ended, lastSession, sessionCores, logouts,
                   runVars, log, stopVars, eventsLeft>>

\* The state of section 4.3 a lifecycle is in, read off its chain: Executing
\* from the invocation of startPipeline until the result settles.
StatusOf(c) ==
    CASE pc[c] = "idle" -> "None"
      [] pc[c] \in {"pulling", "acquiring"} -> "AcquiringImages"
      [] pc[c] \in {"acqCatch", "pruning"} -> "Acquired"
      [] pc[c] \in {"starting", "executing"} -> "Executing"
      [] pc[c] \in {"finCleanup", "errCleanup"} -> "Finishing"
      [] OTHER -> "Ended"

\* One settled logout request: how its promise settled, with what, whether a
\* core was initialized when the request was received, and the state each
\* lifecycle was in when the promise settled.
LogoutRecord(outcome, e, core) ==
    [outcome |-> outcome, error |-> e, core |-> core,
     phase |-> [c \in StartIds |-> StatusOf(c)]]

\* ipcPromise.on('logout'): new Promise((resolve) => { ...mqtCon.end(true, cb) })
Logout ==
    /\ logoutsLeft > 0
    /\ logoutsLeft' = logoutsLeft - 1
    /\ IF initializedCore = 0
       THEN \* reading pipelineManager throws in the executor: the promise rejects
            /\ logouts' = Append(logouts, LogoutRecord("rejected", TypeError, FALSE))
            /\ UNCHANGED <<ending, ended>>
       ELSE /\ ending' = ending + 1
            /\ ended' = ended \cup {initializedCore}
            /\ logouts' = logouts
    /\ UNCHANGED <<initializedCore, configuring, coresCreated, configureCalls,
                   loginsLeft, lastSession, sessionCores, runVars, log, stopVars,
                   eventsLeft>>

\* the callback of mqtCon.end: () => { initializedCore = undefined; resolve() }
LogoutEnded ==
    /\ ending > 0
    /\ ending' = ending - 1
    /\ initializedCore' = 0
    /\ lastSession' = "logout"
    /\ sessionCores' = 0
    /\ logouts' = Append(logouts, LogoutRecord("resolved", Undefined, TRUE))
    /\ UNCHANGED <<configuring, coresCreated, configureCalls, loginsLeft, logoutsLeft,
                   ended, runVars, log, stopVars, eventsLeft>>

\* ------------------------------------------------------------------- stop
\* The engine's stop operation: it knows a run from the invocation of
\* startPipeline until the run's result settles.
EngineKnows(rid) ==
    \E c \in StartIds : run[c].id = rid /\ pc[c] \in {"starting", "executing"}
RequestPipelineStop(rid) == IF EngineKnows(rid) THEN "accepted" ELSE "NotFound"

\* err => { logger.error(err); send('docker-error', { err: { message, stack } }) }
DockerError(e) == Send(0, "docker-error", [err |-> [message |-> e.message, stack |-> e.stack]])

\* One handled stop request: the run id it named, whether the engine's stop
\* operation was invoked, how the try block ended, what the listener returned,
\* what the catch block sent to the window, and the state each lifecycle of
\* that run id was in.
StopRecord(rid, called, outcome, returned, sent) ==
    [runId |-> rid, called |-> called, outcome |-> outcome,
     returned |-> returned, sent |-> sent,
     phase |-> [c \in {d \in StartIds : run[d].id = rid} |-> StatusOf(c)]]

\* ipcMain.on('stop-pipeline'): try { return requestPipelineStop(...) } catch ...
StopPipeline(rid) ==
    /\ stopsLeft > 0
    /\ stopsLeft' = stopsLeft - 1
    /\ eventsLeft > 0
    /\ eventsLeft' = eventsLeft - 1
    /\ stops' = Append(stops,
            IF initializedCore = 0
            THEN StopRecord(rid, FALSE, "threw", Undefined,
                            Some(DockerError(TypeError)))
            ELSE IF RequestPipelineStop(rid) = "accepted"
            THEN StopRecord(rid, TRUE, "accepted", "accepted", None)
            ELSE StopRecord(rid, TRUE, "threw", Undefined,
                            Some(DockerError(NotFoundError))))
    /\ UNCHANGED <<runVars, log, session, stepLimit, cleansLeft, cleaning, cleans,
                   failLimit, downloadVars, poolVars>>

\* ------------------------------------------------------------------ clean
\* an unlinkFiles(rid) invoked by anyone has resolved
Released(rid) ==
    \/ \E c \in StartIds : \E i \in DOMAIN log[c] :
           /\ log[c][i].kind = "outcome"
           /\ log[c][i].name = "unlinkFiles-resolved"
           /\ log[c][i].payload = rid
    \/ \E k \in DOMAIN cleans : /\ cleans[k].kind = "resolved"
                                /\ cleans[k].runId = rid

\* One step of a clean request: the run id it named, whether a core was
\* initialized, whether unlinkFiles was invoked, what the listener returned, what was sent to the window, whether
\* an unlinkFiles of that run id had resolved before, and the state each
\* lifecycle of that run id was in.
CleanRecord(kind, rid, called, sent) ==
    [kind |-> kind, runId |-> rid, called |-> called, sent |-> sent,
     returned |-> Undefined, core |-> initializedCore # 0,
     released |-> Released(rid),
     phase |-> [c \in {d \in StartIds : run[d].id = rid} |-> StatusOf(c)]]

\* ipcMain.on('clean-remote-pipeline'): if (initializedCore) unlinkFiles(runId)
CleanRemotePipeline(rid) ==
    /\ cleansLeft > 0
    /\ cleansLeft' = cleansLeft - 1
    /\ IF initializedCore # 0
       THEN /\ cleaning' = [cleaning EXCEPT ![rid] = @ + 1]
            /\ cleans' = Append(cleans, CleanRecord("request", rid, TRUE, None))
       ELSE /\ cleaning' = cleaning
            /\ cleans' = Append(cleans, CleanRecord("request", rid, FALSE, None))
    /\ UNCHANGED <<runVars, log, session, stopsLeft, stops, stepLimit, eventsLeft,
                   failLimit, downloadVars, poolVars>>

\* the unlinkFiles promise of a clean request resolves: nothing is attached
CleanResolved(rid) ==
    /\ cleaning[rid] > 0
    /\ cleaning' = [cleaning EXCEPT ![rid] = @ - 1]
    /\ cleans' = Append(cleans, CleanRecord("resolved", rid, FALSE, None))
    /\ UNCHANGED <<runVars, log, session, stopsLeft, stops, stepLimit, cleansLeft,
                   eventsLeft, failLimit, downloadVars, poolVars>>

\* .catch((err) => { logger.error(err); send('docker-error', ...) })
CleanRejected(rid, e) ==
    /\ cleaning[rid] > 0
    /\ cleaning' = [cleaning EXCEPT ![rid] = @ - 1]
    /\ cleans' = Append(cleans, CleanRecord("rejected", rid, FALSE, Some(DockerError(e))))
    /\ UNCHANGED <<runVars, log, session, stopsLeft, stops, stepLimit, cleansLeft,
                   eventsLeft, failLimit, downloadVars, poolVars>>

\* ---------------------------------------------------------- download-comps
\* what the other handlers own
lifecycleVars == <<runVars, log, session, eventsLeft, stopsLeft, stops, stepLimit,
                   cleansLeft, cleaning, cleans, failLimit>>

\* for each compStream of pullImages, whether its stream is subscribable
CompStartableSeqs == UNION {[1..n -> BOOLEAN] : n \in 0..MaxComps}

\* The image service's pullImages: the number of records it resolves with for
\* the given computations, one per computation or one per distinct image.
PullImages(comps) == {Len(comps), Cardinality({comps[i] : i \in DOMAIN comps})}

\* mainWindow.webContents.send('docker-out', { output, compId, compName })
DockerOut(status, comp) == [channel |-> "docker-out", status |-> status, comp |-> comp]
\* mainWindow.webContents.send('docker-pull-complete', params.consortiumId)
DockerPullComplete(id) == [channel |-> "docker-pull-complete", status |-> id, comp |-> Undefined]

\* compStreams.forEach: the sends for the streams that never started
NotStartedOut(startable) ==
    SelectSeq([j \in 1..Len(startable) |->
                  IF ~startable[j] THEN DockerOut("error", j)
                  ELSE DockerOut("skip", j)],
              LAMBDA o : o.status = "error")

\* ipcPromise.on('download-comps', (params) => initializedCore.dockerManager.pullImages(...))
DownloadComps(comps, id) ==
    /\ downloadsLeft > 0
    /\ downloadsLeft' = downloadsLeft - 1
    /\ download.state = "none"
    /\ download' = [NoDownload EXCEPT
            !.state = IF initializedCore = 0 THEN "threw" ELSE "pulling",
            !.computations = comps, !.consortiumId = id]
    /\ UNCHANGED <<dlog, lifecycleVars, poolVars>>

\* .then((compStreams) => { let streamsComplete = 0; compStreams.forEach(...) })
DownloadStreams(startable) ==
    /\ download.state = "pulling"
    /\ Len(startable) \in PullImages(download.computations)
    /\ download' = [download EXCEPT
            !.state = "streaming",
            !.compStreams = [i \in 1..Len(startable) |->
                [state |-> IF startable[i] THEN "streaming" ELSE "notStarted",
                 chunks |-> 0]],
            !.streamsComplete = 0]
    /\ dlog' = dlog \o NotStartedOut(startable)
    /\ UNCHANGED <<downloadsLeft, lifecycleVars, poolVars>>

\* .catch((err) => { send('docker-out', { output }) }): pullImages rejected
DownloadRejected ==
    /\ download.state = "pulling"
    /\ download' = [download EXCEPT !.state = "rejected"]
    /\ dlog' = Append(dlog, DockerOut("error", Undefined))
    /\ UNCHANGED <<downloadsLeft, lifecycleVars, poolVars>>

\* stream.on('data', ...): a chunk of complete lines
DownloadData(i) ==
    /\ download.state = "streaming"
    /\ i \in DOMAIN download.compStreams
    /\ download.compStreams[i].state = "streaming"
    /\ download.compStreams[i].chunks < MaxChunks
    /\ download' = [download EXCEPT !.compStreams[i].chunks = @ + 1]
    /\ dlog' = Append(dlog, DockerOut("data", i))
    /\ UNCHANGED <<downloadsLeft, lifecycleVars, poolVars>>

\* stream.on('end', ...): streamsComplete += 1; if (params.consortiumId && ...)
DownloadEnd(i) ==
    /\ download.state = "streaming"
    /\ i \in DOMAIN download.compStreams
    /\ download.compStreams[i].state = "streaming"
    /\ download' = [download EXCEPT !.compStreams[i].state = "ended",
                                    !.streamsComplete = @ + 1]
    /\ dlog' = Append(dlog, DockerOut("complete", i)) \o
               (IF /\ download.consortiumId # Undefined
                   /\ download.streamsComplete + 1 = Len(download.computations)
                THEN <<DockerPullComplete(download.consortiumId)>>
                ELSE <<>>)
    /\ UNCHANGED <<downloadsLeft, lifecycleVars, poolVars>>

\* stream.on('error', ...)
DownloadError(i) ==
    /\ download.state = "streaming"
    /\ i \in DOMAIN download.compStreams
    /\ download.compStreams[i].state = "streaming"
    /\ download' = [download EXCEPT !.compStreams[i].state = "errored"]
    /\ dlog' = Append(dlog, DockerOut("error", i))
    /\ UNCHANGED <<downloadsLeft, lifecycleVars, poolVars>>

\* ---------------------------------------------------- background services
\* const onRunEnd = ...; events.on('run:end', onRunEnd); events.on('error',
\* onRunError); events.once('computation:complete', () => { ... })
Registration(k, how) ==
    [consortium |-> k, how |-> how, runEnd |-> TRUE, error |-> TRUE, once |-> TRUE]
\* computationStartNotification(consortium)
StartNotice(k) == [kind |-> "start", consortium |-> k]

\* runComputation({ consortiumId, projectId }): ... computations.kickoff(...)
RunComputation(k) ==
    /\ registrationsLeft > 0
    /\ registrationsLeft' = registrationsLeft - 1
    /\ computations[k] = "idle"
    /\ computations' = [computations EXCEPT ![k] = "running"]
    /\ notices' = Append(notices, StartNotice(k))
    /\ registrations' = Append(registrations, Registration(k, "kickoff"))
    /\ UNCHANGED <<lifecycleVars, downloadVars>>

\* joinSlaveComputation(consortium), for one project: ... computations.joinRun(...)
JoinSlaveComputation(k) ==
    /\ registrationsLeft > 0
    /\ registrationsLeft' = registrationsLeft - 1
    /\ computations[k] = "idle"
    /\ computations' = [computations EXCEPT ![k] = "running"]
    /\ notices' = Append(notices, StartNotice(k))
    /\ registrations' = Append(registrations, Registration(k, "joinRun"))
    /\ UNCHANGED <<lifecycleVars, downloadVars>>

\* The pool emits 'computation:complete' when the computation of consortium k
\* completes: every listener registered with once() for the event runs.
ComputationComplete(k) ==
    /\ computations[k] = "running"
    /\ computations' = [computations EXCEPT ![k] = "complete"]
    /\ LET fired == SelectSeq(registrations, LAMBDA r : r.once)
       IN notices' = notices \o
              [i \in 1..Len(fired) |->
                  [kind |-> "complete", consortium |-> fired[i].consortium]]
    /\ registrations' = [i \in DOMAIN registrations |->
            IF registrations[i].once
            THEN [registrations[i] EXCEPT !.runEnd = FALSE, !.error = FALSE,
                                          !.once = FALSE]
            ELSE registrations[i]]
    /\ UNCHANGED <<registrationsLeft, lifecycleVars, downloadVars>>

\* ------------------------------------------------------- specifications
\* the session specification: two login requests, pipelines of one step
InitSession == InitWith(1, MaxLogins, SessionSteps, Quotas)

\* the specification of two start requests, pipelines of one step
InitTwoRuns == InitWith(2, 1, SessionSteps, QuotasTwoRuns)

Next ==
    \/ \E c \in StartIds, rid \in RunIds, ty \in RunTypes, steps \in StepSeqs :
           StartPipeline(c, rid, ty, steps)
    \/ \E c \in StartIds, startable \in StartableSeqs : PullsIssued(c, startable)
    \/ \E c \in StartIds, e \in PullErrors : PullsRejected(c, e)
    \/ \E c \in StartIds, i \in 1..MaxSteps : StreamData(c, i)
    \/ \E c \in StartIds, i \in 1..MaxSteps : StreamEnd(c, i)
    \/ \E c \in StartIds, i \in 1..MaxSteps, e \in StreamErrors : StreamError(c, i, e)
    \/ \E c \in StartIds : AcqCleanupResolved(c)
    \/ \E c \in StartIds, e \in CleanupErrors : AcqCleanupRejected(c, e)
    \/ \E c \in StartIds, ok \in BOOLEAN, ne \in NotifyErrors : PruneResolved(c, ok, ne)
    \/ \E c \in StartIds : PruneRejected(c)
    \/ \E c \in StartIds : StartResolved(c)
    \/ \E c \in StartIds, e \in StartErrors : StartRejected(c, e)
    \/ \E c \in StartIds : EngineUpdate(c)
    \/ \E c \in StartIds, res \in Results, ok \in BOOLEAN, ok2 \in BOOLEAN,
          ne \in NotifyErrors : ResultResolved(c, res, ok, ok2, ne)
    \/ \E c \in StartIds, e \in EngineErrors, ok \in BOOLEAN, ne \in NotifyErrors :
           ResultRejected(c, e, ok, ne)
    \/ \E c \in StartIds : FinCleanupResolved(c)
    \/ \E c \in StartIds, e \in CleanupErrors, ok \in BOOLEAN, ne \in NotifyErrors :
           FinCleanupRejected(c, e, ok, ne)
    \/ \E c \in StartIds : ErrCleanupResolved(c)
    \/ \E c \in StartIds, e \in CleanupErrors : ErrCleanupRejected(c, e)
    \/ LoginInit
    \/ ConfigureResolved
    \/ ConfigureRejected
    \/ \E rid \in RunIds : StopPipeline(rid)
    \/ Logout
    \/ LogoutEnded
    \/ \E rid \in RunIds : CleanRemotePipeline(rid)
    \/ \E rid \in RunIds : CleanResolved(rid)
    \/ \E rid \in RunIds, e \in CleanupErrors : CleanRejected(rid, e)
    \/ \E comps \in CompSeqs, id \in {Undefined} \cup ConsortiumIds :
           DownloadComps(comps, id)
    \/ \E startable \in CompStartableSeqs : DownloadStreams(startable)
    \/ DownloadRejected
    \/ \E i \in 1..MaxComps : DownloadData(i)
    \/ \E i \in 1..MaxComps : DownloadEnd(i)
    \/ \E i \in 1..MaxComps : DownloadError(i)
    \/ \E k \in ConsortiumIds : RunComputation(k)
    \/ \E k \in ConsortiumIds : JoinSlaveComputation(k)
    \/ \E k \in ConsortiumIds : ComputationComplete(k)

Spec == Init /\ [][Next]_vars
SpecSession == InitSession /\ [][Next]_vars
SpecTwoRuns == InitTwoRuns /\ [][Next]_vars

\* ------------------------------------------------------- reading the log
CallsOf(c, fn) ==
    {i \in DOMAIN log[c] : log[c][i].kind = "call" /\ log[c][i].name = fn}
SendsOf(c, channel) ==
    {i \in DOMAIN log[c] : log[c][i].kind = "send" /\ log[c][i].name = channel}
OutcomesOf(c, what) ==
    {i \in DOMAIN log[c] : log[c][i].kind = "outcome" /\ log[c][i].name = what}
TerminalsOf(c) == SendsOf(c, "local-run-complete") \cup SendsOf(c, "local-run-error")
FaultNames == {"unlinkFiles-rejected", "sendNotification-threw",
               "pruneImages-rejected", "startPipeline-rejected"}
\* the collaborator failures lifecycle c has met so far
FaultsOf(c) == {n \in FaultNames : OutcomesOf(c, n) # {}}
\* a stream emitted 'error' or the pull could not start
PullFailed(c) ==
    \E i \in DOMAIN pulls[c] : pulls[c][i].state \in {"errored", "notStarted"}
AcquisitionFailed(c) ==
    PullFailed(c) \/ OutcomesOf(c, "pullImagesFromList-rejected") # {}
AcquisitionSucceeded(c) ==
    /\ pc[c] \notin {"idle", "threw", "pulling", "acquiring"}
    /\ ~AcquisitionFailed(c)
    /\ \A i \in DOMAIN pulls[c] : pulls[c][i].state = "ended"
\* the terminal records of c sent after its engine result settled as `what`
TerminalsAfter(c, what) ==
    {i \in TerminalsOf(c) : \E j \in OutcomesOf(c, what) : j < i}

\* ------------------------------------------------------------------ C1
\* C1: a run one of whose image pulls failed (its stream emitted an error or
\* the pull could not start) never has startPipeline invoked for it.
C1_FailedPullNeverExecutes ==
    \A c \in StartIds :
        PullFailed(c) => CallsOf(c, "startPipeline") = {}

\* ------------------------------------------------------------------ C2
\* C2: unlinkFiles(runId) is invoked never twice for a run, and exactly once
\* when the run has reached the end of a terminal path.
C2_CleanupExactlyOnce ==
    \A c \in StartIds :
        /\ Cardinality(CallsOf(c, "unlinkFiles")) <= 1
        /\ pc[c] = "done" => Cardinality(CallsOf(c, "unlinkFiles")) = 1

\* ------------------------------------------------------------------ C3
\* C3: every terminal record sent to the observer is preceded by an
\* invocation of unlinkFiles for the same run.
C3_CleanupBeforeTerminalRecord ==
    \A c \in StartIds : \A i \in TerminalsOf(c) :
        \E j \in CallsOf(c, "unlinkFiles") : j < i

\* ------------------------------------------------------------------ C4
\* C4: at most one terminal record is sent per run, and after it the run is
\* neither started, completed nor errored again.
C4_OneTerminalRecord ==
    \A c \in StartIds :
        /\ Cardinality(TerminalsOf(c)) <= 1
        /\ \A i \in TerminalsOf(c) :
               \A j \in CallsOf(c, "startPipeline") \cup TerminalsOf(c) : j <= i

\* ------------------------------------------------------------------ C5
\* C5: while a pull of the acquisition is still streaming, the acquisition
\* outcome is not acted on: no cleanup is invoked and no error record sent.
C5_FailureWaitsForAllPulls ==
    \A c \in StartIds :
        (\E i \in DOMAIN pulls[c] : pulls[c][i].state = "streaming") =>
            /\ CallsOf(c, "unlinkFiles") = {}
            /\ SendsOf(c, "local-run-error") = {}

\* ------------------------------------------------------------------ C6
\* C6: when the only collaborator failures of a run are cleanup failures, the
\* terminal record after a resolved result is 'local-run-complete', and the
\* one after a rejected result is 'local-run-error' with the engine's message.
C6_CleanupFailureKeepsStatus ==
    \A c \in StartIds :
        FaultsOf(c) \subseteq {"unlinkFiles-rejected"} =>
            /\ \A i \in TerminalsAfter(c, "result-fulfilled") :
                   log[c][i].name = "local-run-complete"
            /\ \A j \in OutcomesOf(c, "result-rejected") :
                   \A i \in TerminalsOf(c) : j < i =>
                       /\ log[c][i].name = "local-run-error"
                       /\ log[c][i].payload.run.error[1].message = log[c][j].payload.message

\* ------------------------------------------------------------------ C7
\* C7: when the only collaborator failures of a run are sendNotification
\* throwing, the chain is never abandoned, cleanup is invoked once the result
\* has settled, and the terminal record matches the engine's outcome.
C7_NotificationFailureHarmless ==
    \A c \in StartIds :
        FaultsOf(c) \subseteq {"sendNotification-threw"} =>
            /\ pc[c] # "rejected"
            /\ \A j \in OutcomesOf(c, "result-fulfilled") \cup OutcomesOf(c, "result-rejected") :
                   pc[c] = "done" => \E k \in CallsOf(c, "unlinkFiles") : j < k
            /\ \A i \in TerminalsAfter(c, "result-fulfilled") :
                   log[c][i].name = "local-run-complete"
            /\ \A j \in OutcomesOf(c, "result-rejected") :
                   \A i \in TerminalsOf(c) : j < i =>
                       /\ log[c][i].name = "local-run-error"
                       /\ log[c][i].payload.run.error[1].message = log[c][j].payload.message

\* ------------------------------------------------------------------ C8
\* C8: once pruneImages has failed for a run whose acquisition succeeded,
\* startPipeline has been invoked for it, and its chain is not abandoned.
C8_PruneFailureDoesNotBlock ==
    \A c \in StartIds :
        (AcquisitionSucceeded(c) /\ OutcomesOf(c, "pruneImages-rejected") # {}) =>
            /\ CallsOf(c, "startPipeline") # {}
            /\ pc[c] # "rejected"

\* ------------------------------------------------------------------ C9
\* C9: pruneImages is invoked exactly once for a run whose acquisition
\* succeeded, only when all pulls have ended, before startPipeline, and never
\* for a run whose acquisition failed.
C9_PruneOnceOnSuccessOnly ==
    \A c \in StartIds :
        /\ Cardinality(CallsOf(c, "pruneImages")) <= 1
        /\ AcquisitionSucceeded(c) => Cardinality(CallsOf(c, "pruneImages")) = 1
        /\ AcquisitionFailed(c) => CallsOf(c, "pruneImages") = {}
        /\ CallsOf(c, "pruneImages") # {} =>
               \A i \in DOMAIN pulls[c] : pulls[c][i].state = "ended"
        /\ \A s \in CallsOf(c, "startPipeline") :
               \E p \in CallsOf(c, "pruneImages") : p < s

\* ------------------------------------------------------------------ C10
\* C10: when the engine's result rejected with an error carrying an input and
\* the only collaborator failures are cleanup failures, every terminal record
\* sent afterwards is an error record with that message, stack, error, input.
C10_EngineErrorContextPreserved ==
    \A c \in StartIds :
        FaultsOf(c) \subseteq {"unlinkFiles-rejected"} =>
            \A j \in OutcomesOf(c, "result-rejected") :
                log[c][j].payload.input # Undefined =>
                    \A i \in TerminalsOf(c) : j < i =>
                        /\ log[c][i].name = "local-run-error"
                        /\ log[c][i].payload.run.error = Some(ErrorRecord4(log[c][j].payload))

\* ------------------------------------------------------------------ C11
\* C11: on a terminal transition out of Executing, unlinkFiles is invoked
\* (after the result settled) before the 'Pipeline finished' / 'Pipeline
\* stopped' notification of that transition is sent.
C11_CleanupBeforeMilestone ==
    \A c \in StartIds : \A n \in CallsOf(c, "sendNotification") :
        log[c][n].payload \in {"Pipeline finished", "Pipeline stopped"} =>
            \E j \in OutcomesOf(c, "result-fulfilled") \cup OutcomesOf(c, "result-rejected") :
                \E k \in CallsOf(c, "unlinkFiles") : j < k /\ k < n

\* ------------------------------------------------------------------ C12
\* C12: a stop request naming a run id with no live run returns NotFound to
\* the caller and sends nothing to the window.
LiveStatuses == {"AcquiringImages", "Acquired", "Executing", "Finishing"}
C12_UnknownStopIsSilent ==
    \A k \in DOMAIN stops :
        (\A c \in DOMAIN stops[k].phase : stops[k].phase[c] \notin LiveStatuses) =>
            /\ stops[k].sent = None
            /\ stops[k].returned = "NotFound"

\* ------------------------------------------------------------------ C13
\* C13: a stop request for a run that is Executing is forwarded to the
\* engine, and (no collaborator failing) the terminal record the run then
\* gets reports it as Stopped, neither Completed nor Errored, after cleanup
\* was invoked.
ReportedStatus(entry) ==
    IF entry.name = "local-run-complete" THEN "Completed" ELSE "Errored"
C13_StopWhileExecutingReportsStopped ==
    \A k \in DOMAIN stops : \A c \in DOMAIN stops[k].phase :
        (stops[k].phase[c] = "Executing" /\ FaultsOf(c) = {}) =>
            /\ stops[k].called /\ stops[k].outcome = "accepted"
            /\ \A i \in TerminalsAfter(c, "result-fulfilled")
                        \cup TerminalsAfter(c, "result-rejected") :
                   /\ ReportedStatus(log[c][i]) = "Stopped"
                   /\ \E j \in CallsOf(c, "unlinkFiles") : j < i

\* ------------------------------------------------------------------ C14
\* C14: after a stop request that arrived while the run was acquiring its
\* images, startPipeline is not invoked for the run, and once its chain has
\* ended its cleanup was invoked.
C14_EarlyStopPreventsExecution ==
    \A k \in DOMAIN stops : \A c \in DOMAIN stops[k].phase :
        stops[k].phase[c] = "AcquiringImages" =>
            /\ CallsOf(c, "startPipeline") = {}
            /\ StatusOf(c) = "Ended" => CallsOf(c, "unlinkFiles") # {}

\* ------------------------------------------------------------------ C15
\* C15: the list handed to pullImagesFromList holds each distinct image of
\* the pipeline's steps exactly once, in order of first occurrence.
RECURSIVE FirstOccurrences(_)
FirstOccurrences(list) ==
    IF list = <<>> THEN <<>>
    ELSE LET init == FirstOccurrences(SubSeq(list, 1, Len(list) - 1))
             last == list[Len(list)]
         IN IF \E i \in DOMAIN init : init[i] = last THEN init ELSE Append(init, last)
C15_ImageListDeduplicated ==
    \A c \in StartIds : \A i \in CallsOf(c, "pullImagesFromList") :
        log[c][i].payload = FirstOccurrences(Flatten(run[c].steps))

\* ------------------------------------------------------------------ C16
\* C16: for a pipeline one of whose steps names no image, neither
\* pullImagesFromList nor startPipeline is invoked.
LacksImage(c) == \E i \in DOMAIN run[c].steps : "undefined" \in
                     {run[c].steps[i][j] : j \in DOMAIN run[c].steps[i]}
C16_MissingImageRejectedEarly ==
    \A c \in StartIds :
        LacksImage(c) =>
            /\ CallsOf(c, "pullImagesFromList") = {}
            /\ CallsOf(c, "startPipeline") = {}

\* ------------------------------------------------------------------ C17
\* C17: a 'local-run-complete' record is only sent for a run of type local
\* whose result resolved; once the chain of a run whose result resolved is
\* done, the record was sent if the type is local, and cleanup was invoked
\* after the result resolved whatever the type.
C17_CompleteIffLocal ==
    \A c \in StartIds :
        /\ \A i \in SendsOf(c, "local-run-complete") :
               /\ run[c].type = "local"
               /\ \E j \in OutcomesOf(c, "result-fulfilled") : j < i
        /\ \A j \in OutcomesOf(c, "result-fulfilled") :
               pc[c] = "done" =>
                   /\ run[c].type = "local" => SendsOf(c, "local-run-complete") # {}
                   /\ \E k \in CallsOf(c, "unlinkFiles") : j < k

\* ------------------------------------------------------------------ C18
\* C18: every started lifecycle has sent exactly one 'save-local-run', and it
\* precedes every other record of that lifecycle (pull, state update,
\* terminal record).
C18_SaveLocalRunFirst ==
    \A c \in StartIds :
        /\ pc[c] = "idle" => SendsOf(c, "save-local-run") = {}
        /\ pc[c] # "idle" =>
               /\ Cardinality(SendsOf(c, "save-local-run")) = 1
               /\ \A s \in SendsOf(c, "save-local-run") :
                      \A i \in DOMAIN log[c] : i # s => s < i
C18_Witness ==
    \E c \in StartIds :
        /\ pc[c] = "done"
        /\ SendsOf(c, "save-local-run") # {}
        /\ SendsOf(c, "local-pipeline-state-update") # {}
        /\ SendsOf(c, "local-run-complete") # {}

\* ------------------------------------------------------------------ C19
\* C19: a 'login-init' handled while a core is initialized calls
\* configureCore neither now nor later on its behalf and leaves the core
\* instance as it is.
C19_LoginWhileInitializedIsNoop ==
    [][(loginsLeft' < loginsLeft /\ initializedCore # 0) =>
           /\ configureCalls' = configureCalls
           /\ configuring' = configuring
           /\ coresCreated' = coresCreated
           /\ initializedCore' = initializedCore]_vars
\* two logins were handled and only the first configured a core
C19_Witness ==
    /\ loginsLeft = MaxLogins - 2
    /\ configureCalls = 1
    /\ configuring = 0
    /\ initializedCore = 1

\* ------------------------------------------------------------------ C20
\* C20: configureCore is never pending twice at once, and at most one core
\* instance is created between two completed logouts.
C20_OneCorePerSession ==
    /\ configuring <= 1
    /\ sessionCores <= 1

\* ------------------------------------------------------------------ C21
\* C21: no two lifecycles of the same run id are at once in AcquiringImages
\* or Executing: a start request naming a run id that is still live does not
\* set off a second set of pulls or a second execution.
C21_OneLifecyclePerRunId ==
    \A c, d \in StartIds :
        (c # d /\ pc[c] # "idle" /\ pc[d] # "idle" /\ run[c].id = run[d].id) =>
            ~ /\ StatusOf(c) \in {"AcquiringImages", "Executing"}
              /\ StatusOf(d) \in {"AcquiringImages", "Executing"}

\* ------------------------------------------------------------------ C22
\* C22: a step of one lifecycle (its start included) changes the state and
\* the events of no other lifecycle; a lifecycle in AcquiringImages can take
\* its next step whatever state the others are in; every record sent to the
\* observer carries the id of the run whose lifecycle sent it.
LifecycleState(c) ==
    <<pc[c], run[c], imageList[c], pulls[c], captured[c], subscribed[c],
      emitted[c], log[c]>>
RunTag(entry) ==
    IF entry.name = "local-pipeline-state-update"
    THEN entry.payload.run ELSE entry.payload.run.id
C22_RunsDoNotInterfere ==
    [][/\ \A a, b \in StartIds :
              (a # b /\ LifecycleState(b)' # LifecycleState(b)) =>
                  LifecycleState(a)' = LifecycleState(a)
       /\ \A a \in StartIds :
              /\ pc[a] = "pulling" =>
                     ENABLED (\E st \in StartableSeqs : PullsIssued(a, st))
              /\ pc[a] = "acquiring" =>
                     \E i \in DOMAIN pulls[a] : ENABLED StreamEnd(a, i)
       /\ \A a \in StartIds : \A i \in DOMAIN log'[a] :
              log'[a][i].kind = "send" => RunTag(log'[a][i]) = run'[a].id]_vars
\* run2 was started while run1 was acquiring its images, and both have sent
\* download updates
C22_Witness ==
    /\ pc[1] = "acquiring" /\ pc[2] = "acquiring"
    /\ run[1].id # run[2].id
    /\ SendsOf(1, "local-pipeline-state-update") # {}
    /\ \E i \in SendsOf(2, "local-pipeline-state-update") :
           log[2][i].payload.data.text # None

\* ------------------------------------------------------------------ C23
\* C23: among the records a run sent to the observer, every 'Downloading
\* required docker images' update precedes every engine update, and every
\* state update precedes every terminal record.
DownloadUpdatesOf(c) ==
    {i \in SendsOf(c, "local-pipeline-state-update") :
        "controllerState" \in DOMAIN log[c][i].payload.data}
EngineUpdatesOf(c) ==
    {i \in SendsOf(c, "local-pipeline-state-update") :
        "update" \in DOMAIN log[c][i].payload.data}
C23_EventsInLifecycleOrder ==
    \A c \in StartIds :
        /\ \A d \in DownloadUpdatesOf(c) : \A u \in EngineUpdatesOf(c) : d < u
        /\ \A u \in SendsOf(c, "local-pipeline-state-update") :
               \A t \in TerminalsOf(c) : u < t

\* ------------------------------------------------------------------ C24
\* C24: an update the engine emitted for a run after startPipeline resolved
\* and before the result settled is sent to the observer exactly once, at
\* once (so in the order of emission) and tagged with the run; an update the
\* engine emitted after the result settled is not sent: the subscription
\* has ended with the execution.
SettledBefore(c, e) ==
    \E r \in OutcomesOf(c, "result-fulfilled") \cup OutcomesOf(c, "result-rejected") :
        r < e
ResentOf(c, e) ==
    {i \in EngineUpdatesOf(c) : log[c][i].payload.data.update = log[c][e].payload}
C24_UpdatesResentWhileExecuting ==
    \A c \in StartIds : \A e \in OutcomesOf(c, "update-emitted") :
        /\ ((\E s \in OutcomesOf(c, "startPipeline-resolved") : s < e)
                /\ ~SettledBefore(c, e)) =>
               /\ ResentOf(c, e) = {e + 1}
               /\ log[c][e + 1].payload.run = run[c].id
        /\ SettledBefore(c, e) => ResentOf(c, e) = {}

\* ------------------------------------------------------------------ C25
\* C25: the first terminal record of a run one of whose pulls could not start
\* is an error record whose message is the message of that pull's stream
\* value.
C25_NotStartedMessageReported ==
    \A c \in StartIds :
        (\E i \in DOMAIN pulls[c] : pulls[c][i].state = "notStarted") =>
            \A t \in TerminalsOf(c) :
                (\A u \in TerminalsOf(c) : t <= u) =>
                    /\ log[c][t].name = "local-run-error"
                    /\ log[c][t].payload.run.error[1].message = NotStartedMessage

\* ------------------------------------------------------------------ C26
\* C26: the core is discarded only after mqtCon.end was called on it; when a
\* logout completes, and from then until the next 'login-init', no core is
\* initialized; the first 'login-init' after a completed logout calls
\* configureCore, and a core that gets initialized is never one whose
\* connection was ended.
C26_LogoutEndsThenDiscards ==
    [][/\ (initializedCore # 0 /\ initializedCore' = 0) => initializedCore \in ended
       /\ ending' < ending => initializedCore' = 0
       /\ lastSession' = "logout" => initializedCore' = 0
       /\ (loginsLeft' < loginsLeft /\ lastSession = "logout") =>
              configureCalls' = configureCalls + 1
       /\ (initializedCore' # 0 /\ initializedCore' # initializedCore) =>
              initializedCore' \notin ended]_vars

\* ------------------------------------------------------------------ C27
\* C27: once an unlinkFiles of a run id has resolved, unlinkFiles is not
\* invoked for that run id again, neither by a 'clean-remote-pipeline'
\* request nor by the run's own chain.
C27_CleanupIdempotent ==
    /\ \A k \in DOMAIN cleans :
           (cleans[k].kind = "request" /\ cleans[k].released) => ~cleans[k].called
    /\ \A c \in StartIds : \A r \in OutcomesOf(c, "unlinkFiles-resolved") :
           \A u \in CallsOf(c, "unlinkFiles") : u < r

\* ------------------------------------------------------------------ C28
\* C28: a 'clean-remote-pipeline' request handled in a session and naming a
\* run id no start request has named invokes no unlinkFiles and returns
\* NotFound to the caller.
C28_UnknownCleanFails ==
    \A k \in DOMAIN cleans :
        (cleans[k].kind = "request" /\ cleans[k].core /\ DOMAIN cleans[k].phase = {}) =>
            /\ ~cleans[k].called
            /\ cleans[k].returned = "NotFound"

\* ------------------------------------------------------------------ C29
\* C29: a chain that has run to its end (no callback of it is left to run),
\* with the core initialized throughout, has invoked unlinkFiles for its run
\* and, when the run is local or met an error (a failed acquisition, a
\* rejected startPipeline or result), has sent a terminal record.
RunErrored(c) ==
    \/ AcquisitionFailed(c)
    \/ OutcomesOf(c, "startPipeline-rejected") # {}
    \/ OutcomesOf(c, "result-rejected") # {}
C29_EveryRunIsFinished ==
    \A c \in StartIds :
        (pc[c] \in {"done", "rejected"} /\ OutcomesOf(c, "core-undefined-threw") = {}) =>
            /\ CallsOf(c, "unlinkFiles") # {}
            /\ (run[c].type = "local" \/ RunErrored(c)) => TerminalsOf(c) # {}

\* ------------------------------------------------------------------ C30
\* C30: the 'Downloading required docker images' updates a run has sent are
\* one without text per pull that started, and one per data chunk a stream
\* has emitted, carrying that chunk's text, the chunks of one stream in
\* their order; each carries the run's id; a pull that could not start has
\* none.
StartedPulls(c) == {i \in DOMAIN pulls[c] : pulls[c][i].state # "notStarted"}
ChunksOf(c) == {<<i, k>> \in StartedPulls(c) \X (1..(MaxChunks + 1)) :
                   k <= pulls[c][i].chunks}
AttachUpdatesOf(c) ==
    {d \in DownloadUpdatesOf(c) : log[c][d].payload.data.text = None}
ChunkUpdatesOf(c) ==
    {d \in DownloadUpdatesOf(c) : log[c][d].payload.data.text # None}
C30_DownloadUpdatesPerPull ==
    \A c \in StartIds :
        /\ Cardinality(AttachUpdatesOf(c)) = Cardinality(StartedPulls(c))
        /\ Cardinality(ChunkUpdatesOf(c)) = Cardinality(ChunksOf(c))
        /\ {log[c][d].payload.data.text[1] : d \in ChunkUpdatesOf(c)} = ChunksOf(c)
        /\ \A d, e \in ChunkUpdatesOf(c) :
               LET x == log[c][d].payload.data.text[1]
                   y == log[c][e].payload.data.text[1]
               IN (x[1] = y[1] /\ x[2] < y[2]) => d < e
        /\ \A a \in AttachUpdatesOf(c) : \A d \in ChunkUpdatesOf(c) : a < d
        /\ \A d \in DownloadUpdatesOf(c) : log[c][d].payload.run = run[c].id
\* one pull of a run could not start, the other has emitted a data chunk
C30_Witness ==
    \E c \in StartIds : \E i, j \in DOMAIN pulls[c] :
        /\ pulls[c][i].state = "notStarted"
        /\ pulls[c][j].chunks >= 1
        /\ ChunkUpdatesOf(c) # {}

\* ------------------------------------------------------------------ C31
\* C31: of the notifications sent for a run (a call of sendNotification that
\* did not throw), 'Pipeline finished' and 'Pipeline stopped' are never both
\* among them, 'Pipeline started' is sent at most once, and before either.
NotificationsSent(c, title) ==
    {n \in CallsOf(c, "sendNotification") :
        /\ log[c][n].payload = title
        /\ ~(n + 1 \in OutcomesOf(c, "sendNotification-threw"))}
C31_OneEndMilestone ==
    \A c \in StartIds :
        /\ ~ /\ NotificationsSent(c, "Pipeline finished") # {}
              /\ NotificationsSent(c, "Pipeline stopped") # {}
        /\ Cardinality(NotificationsSent(c, "Pipeline started")) <= 1
        /\ \A n \in NotificationsSent(c, "Pipeline finished")
                    \cup NotificationsSent(c, "Pipeline stopped") :
               /\ Cardinality(NotificationsSent(c, "Pipeline started")) = 1
               /\ \A s \in NotificationsSent(c, "Pipeline started") : s < n

\* ------------------------------------------------------------------ C33
\* C33: a lifecycle whose start request found no core initialized, and which
\* has sent 'save-local-run', has sent a terminal error record too.
C33_NoCoreStartIsReported ==
    \A c \in StartIds :
        (pc[c] = "threw" /\ SendsOf(c, "save-local-run") # {}) =>
            SendsOf(c, "local-run-error") # {}

\* ------------------------------------------------------------------ C32
\* C32: when a logout has completed while a lifecycle was in AcquiringImages
\* or Executing and the lifecycle's chain has since run to its end, the
\* chain has invoked unlinkFiles for the run and sent a terminal record.
C32_LogoutDoesNotStrandRun ==
    \A k \in DOMAIN logouts : \A c \in StartIds :
        (/\ logouts[k].outcome = "resolved"
         /\ logouts[k].phase[c] \in {"AcquiringImages", "Executing"}
         /\ pc[c] \in {"done", "rejected"}) =>
            /\ \E u \in CallsOf(c, "unlinkFiles") : log[c][u].payload = run[c].id
            /\ TerminalsOf(c) # {}

\* ------------------------------------------------------------------ C34
\* C34: a logout request handled while no core is initialized settles
\* without an error.
C34_LogoutWithoutCoreIsNoop ==
    \A k \in DOMAIN logouts :
        ~logouts[k].core => /\ logouts[k].outcome = "resolved"
                            /\ logouts[k].error = Undefined

\* ------------------------------------------------------------------ C37
\* C37: in a lifecycle whose image list is empty, once pullImagesFromList has
\* resolved (and with the core initialized whenever a callback ran) the chain
\* never waits for a pull nor takes the acquisition catch, no 'Downloading
\* required docker images' update and no cleanup precedes the start,
\* pruneImages has been invoked exactly once, and once pruneImages has
\* resolved and 'Pipeline started' has been notified startPipeline has been
\* invoked: the run is in Executing (or beyond).
EmptyListPulled(c) ==
    /\ imageList[c] = <<>>
    /\ pc[c] \notin {"idle", "threw", "pulling"}
    /\ OutcomesOf(c, "pullImagesFromList-rejected") = {}
    /\ OutcomesOf(c, "core-undefined-threw") = {}
PullCompletes == {n \in DOMAIN dlog : dlog[n].channel = "docker-pull-complete"}
AllStreamsEnded ==
    /\ download.state = "streaming"
    /\ download.compStreams # <<>>
    /\ \A i \in DOMAIN download.compStreams : download.compStreams[i].state = "ended"
C35_PullCompleteOnceWhenAllEnded ==
    download.computations # <<>> =>
        /\ Cardinality(PullCompletes) <= 1
        /\ PullCompletes # {} => (download.consortiumId # Undefined /\ AllStreamsEnded)
        /\ (AllStreamsEnded /\ download.consortiumId # Undefined) => PullCompletes # {}
        /\ (\/ download.state \in {"threw", "rejected"}
            \/ \E i \in DOMAIN download.compStreams :
                   download.compStreams[i].state \in {"errored", "notStarted"}) =>
               PullCompletes = {}

\* ------------------------------------------------------------------ C36
\* C36: the run-end and error listeners registered for a computation are
\* registered as long as that computation is running, and once every started
\* computation has completed none of them is registered.
C36_ListenersLiveWithComputation ==
    /\ \A r \in DOMAIN registrations :
           computations[registrations[r].consortium] = "running" =>
               (registrations[r].runEnd /\ registrations[r].error)
    /\ (\A k \in ConsortiumIds : computations[k] # "running") =>
           \A r \in DOMAIN registrations :
               ~registrations[r].runEnd /\ ~registrations[r].error

====
